---- MODULE Spec2Model ----
(***************************************************************************)
(* Model of the pipeline driver go() of src/main.py.                       *)
(*                                                                         *)
(* A string is a finite sequence of symbols: a step name, the word         *)
(* "bogus" (a token that names no step), the word "all", or the comma.     *)
(* A configuration value is a tagged tuple: <<"cfg", field>> is the value  *)
(* the configuration holds for a field, <<"lit", s>> a literal of the      *)
(* source, <<"ref", name, version>> the literal "name:version",            *)
(* <<"str", v>>, <<"int", v>>, <<"float", v>> the conversions of v,        *)
(* <<"fstr", v, s>> the f-string "{v}/s", and                              *)
(* <<"path", dir, name>> an absolute file path.                            *)
(***************************************************************************)
EXTENDS Naturals, Sequences, FiniteSets

VARIABLES
    requested,     \* the tokens the caller listed (the input steps_par is built from)
    steps_par,     \* config['main']['steps'], a string
    config,        \* per configuration field: "ok", "missing" or "malformed"
    env,           \* os.environ, restricted to the two bindings go() writes
    env0,          \* os.environ as it was when the current run started
    pc,            \* position of go()
    run,           \* number of the current run of go() in this process
    active_steps,  \* the local active_steps
    tmp_dir,       \* the local tmp_dir
    dirs,          \* the temporary directories that exist
    files,         \* the files that exist, as records [dir, name, content]
    idx,           \* the if-block of go() the run is at
    log,           \* the calls of mlflow.run made by the current run
    prevlog,       \* the calls made by the previous run
    exc,           \* the exception in flight or raised, or None
    failedAt,      \* the block whose executor call reported failure, or 0
    store,         \* the artifact store: versions logged per artifact name
    acquired,      \* times the current run created its temporary directory
    released       \* times the current run removed its temporary directory

vars == <<requested, steps_par, config, env, env0, pc, run, active_steps,
          tmp_dir, dirs, files, idx, log, prevlog, exc, failedAt, store,
          acquired, released>>

(* ------------------------------ bounds --------------------------------- *)

MaxTokens == 2

MaxRuns == 2

(* ----------------------------- constants ------------------------------- *)

None == "None"

Absent == <<"absent">>

Cwd == "cwd"

TmpNames == {"tmpA", "tmpB"}

BlocksMisordered ==
    << "data_check", "download", "basic_cleaning", "train_val_test_split",
       "train_random_forest", "test_regression_model" >>

_steps ==
    << "download", "basic_cleaning", "data_check", "train_val_test_split",
       "train_random_forest", "test_regression_model" >>

Blocks ==
    << "download", "basic_cleaning", "data_check", "train_val_test_split",
       "train_random_forest", "test_regression_model" >>

Fields ==
    { "main.project_name", "main.experiment_name", "main.steps",
      "main.components_repository", "etl.sample", "etl.min_price",
      "etl.max_price", "data.raw_artifact", "data_check.kl_threshold",
      "modeling.test_size", "modeling.val_size", "modeling.random_seed",
      "modeling.stratify_by", "modeling.max_tfidf_features",
      "modeling.random_forest" }

Artifacts ==
    { "sample.csv", "clean_data.csv", "clean_sample.csv", "trainval_data.csv",
      "test_data.csv", "random_forest_export" }

(* ------------------------------ strings -------------------------------- *)

Range(s) == { s[i] : i \in DOMAIN s }

RECURSIVE SplitFrom(_, _, _, _, _)
SplitFrom(s, sep, i, cur, acc) ==
    IF i > Len(s) THEN Append(acc, cur)
    ELSE IF s[i] = sep THEN SplitFrom(s, sep, i + 1, <<>>, Append(acc, cur))
    ELSE SplitFrom(s, sep, i + 1, Append(cur, s[i]), acc)

Split(s, sep) == SplitFrom(s, sep, 1, <<>>, <<>>)

In(name, tokens) == \E i \in DOMAIN tokens : tokens[i] = <<name>>

RECURSIVE Join(_)
Join(tokens) ==
    IF Len(tokens) = 0 THEN <<>>
    ELSE IF Len(tokens) = 1 THEN <<tokens[1]>>
    ELSE <<tokens[1], ",">> \o Join(Tail(tokens))

(* --------------------------- configuration ----------------------------- *)

Cfg(f) == <<"cfg", f>>

ReadFails(f, strict) ==
    \/ config[f] = "missing"
    \/ strict /\ config[f] = "malformed"

AllOk == [f \in Fields |-> "ok"]

StrictFields ==
    { "main.project_name", "main.experiment_name", "main.steps",
      "modeling.val_size", "modeling.random_seed",
      "modeling.max_tfidf_features", "modeling.random_forest" }

Configs ==
    {AllOk}
    \cup { [AllOk EXCEPT ![f] = "missing"] : f \in Fields }
    \cup { [AllOk EXCEPT ![f] = "malformed"] : f \in StrictFields }

Words == Range(_steps) \cup {"bogus", "all"}

TokenLists == UNION { [1..n -> Words] : n \in 1..MaxTokens }

Selections == { <<"all">> } \cup TokenLists

(* ------------------- parameter wiring of the if-blocks ------------------ *)

Lit(s) == <<"lit", s>>

InputVersionFromStore == IF store["sample.csv"] > 1 THEN "v1" ELSE "latest"

InputVersion == "latest"

Ref(name, version) == <<"ref", name, version>>

RfConfigPath == <<"path", Cwd, "rf_config.json">>

Location(s) ==
    CASE s = "train_random_forest" -> Lit("src/train_random_forest")
      [] s = "test_regression_model" -> Lit("components/test_regression_model")
      [] s = "download" -> <<"fstr", Cfg("main.components_repository"), "get_data">>
      [] OTHER -> <<"fstr", Cfg("main.components_repository"), s>>

Parameters(s) ==
    CASE s = "download" ->
           [ sample |-> Cfg("etl.sample"),
             artifact_name |-> Lit("sample.csv"),
             artifact_type |-> Lit("raw_data"),
             artifact_description |-> Lit("Raw file as downloaded") ]
      [] s = "basic_cleaning" ->
           [ input_artifact |-> Cfg("data.raw_artifact"),
             output_artifact |-> Lit("clean_data.csv"),
             output_type |-> Lit("clean_data"),
             output_description |-> Lit("Cleaned dataset after basic preprocessing") ]
      [] s = "data_check" ->
           [ csv |-> Ref("clean_sample.csv", InputVersion),
             ref |-> Ref("clean_sample.csv", "reference"),
             kl_threshold |-> Cfg("data_check.kl_threshold"),
             min_price |-> Cfg("etl.min_price"),
             max_price |-> Cfg("etl.max_price") ]
      [] s = "train_val_test_split" ->
           [ input |-> Ref("clean_sample.csv", InputVersion),
             test_size |-> <<"str", Cfg("modeling.test_size")>>,
             random_seed |-> <<"str", Cfg("modeling.random_seed")>>,
             stratify_by |-> <<"str", Cfg("modeling.stratify_by")>> ]
      [] s = "train_random_forest" ->
           [ trainval_artifact |-> Ref("trainval_data.csv", InputVersion),
             val_size |-> <<"float", Cfg("modeling.val_size")>>,
             random_seed |-> <<"int", Cfg("modeling.random_seed")>>,
             stratify_by |-> <<"str", Cfg("modeling.stratify_by")>>,
             max_tfidf_features |-> <<"int", Cfg("modeling.max_tfidf_features")>>,
             rf_config |-> RfConfigPath,
             output_artifact |-> Lit("random_forest_export") ]
      [] s = "test_regression_model" ->
           [ mlflow_model |-> Ref("random_forest_export", "prod"),
             test_dataset |-> Ref("test_data.csv", InputVersion) ]

\* The configuration reads an if-block makes before its call, as
\* <<field, strict>>: a strict read also fails on a malformed value.
Reads(s) ==
    CASE s = "download" ->
           { <<"main.components_repository", FALSE>>, <<"etl.sample", FALSE>> }
      [] s = "basic_cleaning" ->
           { <<"main.components_repository", FALSE>>, <<"data.raw_artifact", FALSE>> }
      [] s = "data_check" ->
           { <<"main.components_repository", FALSE>>,
             <<"data_check.kl_threshold", FALSE>>,
             <<"etl.min_price", FALSE>>, <<"etl.max_price", FALSE>> }
      [] s = "train_val_test_split" ->
           { <<"main.components_repository", FALSE>>,
             <<"modeling.test_size", FALSE>>, <<"modeling.random_seed", FALSE>>,
             <<"modeling.stratify_by", FALSE>> }
      [] s = "train_random_forest" ->
           { <<"modeling.random_forest", TRUE>>, <<"modeling.val_size", TRUE>>,
             <<"modeling.random_seed", TRUE>>, <<"modeling.stratify_by", FALSE>>,
             <<"modeling.max_tfidf_features", TRUE>> }
      [] s = "test_regression_model" -> {}

ReadsFail(s) == \E r \in Reads(s) : ReadFails(r[1], r[2])

Invocation(s) ==
    [ step |-> s,
      location |-> Location(s),
      entry_point |-> "main",
      env_manager |-> "conda",
      parameters |-> Parameters(s) ]

\* json.dump into open(rf_config, "w+"): the file is created (or truncated)
\* before the hyperparameters are read from the configuration.
WriteRfConfig ==
    { f \in files : ~(f.dir = RfConfigPath[2] /\ f.name = RfConfigPath[3]) }
    \cup { [ dir |-> RfConfigPath[2], name |-> RfConfigPath[3],
             content |-> IF ReadFails("modeling.random_forest", TRUE)
                         THEN "empty" ELSE "hyperparameters" ] }

(* --------------------------- artifact store ---------------------------- *)

ParamValues(params) == { params[k] : k \in DOMAIN params }

LatestInputs(params) ==
    { v[2] : v \in { w \in ParamValues(params) : w[1] = "ref" /\ w[3] = "latest" } }

DeclaredOutputs(params) ==
    { params[k][2] : k \in DOMAIN params \cap {"artifact_name", "output_artifact"} }

Produces(s) ==
    DeclaredOutputs(Parameters(s))
    \cup (IF s = "train_val_test_split"
          THEN {"trainval_data.csv", "test_data.csv"} ELSE {})

(* ------------------------------ the run -------------------------------- *)

Init ==
    /\ requested \in Selections
    /\ steps_par = Join(requested)
    /\ config \in Configs
    /\ env0 \in { [WANDB_PROJECT |-> Absent, WANDB_RUN_GROUP |-> Absent],
                  [WANDB_PROJECT |-> Lit("other_project"),
                   WANDB_RUN_GROUP |-> Lit("other_group")] }
    /\ env = env0
    /\ pc = "NotStarted"
    /\ run = 1
    /\ active_steps = <<>>
    /\ tmp_dir = None
    /\ dirs = {}
    /\ files = {}
    /\ idx = 0
    /\ log = <<>>
    /\ prevlog = <<>>
    /\ exc = None
    /\ failedAt = 0
    /\ store = [a \in Artifacts |-> 0]
    /\ acquired = 0
    /\ released = 0

\* An exception raised before the with statement is entered leaves go().
RaiseOutsideScope ==
    /\ exc' = "ConfigurationError"
    /\ pc' = "Failed"

\* Lines 28-29: the two environment bindings.
SetEnv ==
    /\ pc = "NotStarted"
    /\ IF ReadFails("main.project_name", TRUE)
       THEN RaiseOutsideScope /\ UNCHANGED env
       ELSE IF ReadFails("main.experiment_name", TRUE)
       THEN /\ RaiseOutsideScope
            /\ env' = [env EXCEPT !.WANDB_PROJECT = Cfg("main.project_name")]
       ELSE /\ env' = [ WANDB_PROJECT |-> Cfg("main.project_name"),
                        WANDB_RUN_GROUP |-> Cfg("main.experiment_name") ]
            /\ pc' = "Resolve"
            /\ UNCHANGED exc
    /\ UNCHANGED <<requested, steps_par, config, env0, run, active_steps,
                   tmp_dir, dirs, files, idx, log, prevlog, failedAt, store,
                   acquired, released>>

\* Lines 32-33: the active steps.
ResolveSteps ==
    /\ pc = "Resolve"
    /\ IF ReadFails("main.steps", TRUE)
       THEN RaiseOutsideScope /\ UNCHANGED active_steps
       ELSE /\ active_steps' = IF steps_par # <<"all">>
                               THEN Split(steps_par, ",")
                               ELSE [i \in DOMAIN _steps |-> <<_steps[i]>>]
            /\ pc' = "Enter"
            /\ UNCHANGED exc
    /\ UNCHANGED <<requested, steps_par, config, env, env0, run, tmp_dir, dirs,
                   files, idx, log, prevlog, failedAt, store, acquired,
                   released>>

\* Line 36, entry: tempfile.TemporaryDirectory() makes a directory with a
\* name no existing directory has.
EnterScope ==
    /\ pc = "Enter"
    /\ \E d \in TmpNames \ dirs :
          /\ tmp_dir' = d
          /\ dirs' = dirs \cup {d}
    /\ acquired' = acquired + 1
    /\ idx' = 1
    /\ pc' = "Step"
    /\ UNCHANGED <<requested, steps_par, config, env, env0, run, active_steps,
                   files, log, prevlog, exc, failedAt, store, released>>

\* Control passes to the next if-block, or past the last one to the end of
\* the with body.
Advance ==
    /\ idx' = idx + 1
    /\ pc' = IF idx + 1 > Len(Blocks) THEN "Exit" ELSE "Step"

\* An if-block whose condition is false.
SkipStep ==
    /\ pc = "Step"
    /\ ~In(Blocks[idx], active_steps)
    /\ Advance
    /\ UNCHANGED <<requested, steps_par, config, env, env0, run, active_steps,
                   tmp_dir, dirs, files, log, prevlog, exc, failedAt, store,
                   acquired, released>>

\* An if-block whose condition is true, up to the call of mlflow.run: the
\* side file of train_random_forest, then the arguments of the call.
InvokeStep ==
    /\ pc = "Step"
    /\ In(Blocks[idx], active_steps)
    /\ files' = IF Blocks[idx] = "train_random_forest" THEN WriteRfConfig ELSE files
    /\ IF ReadsFail(Blocks[idx])
       THEN /\ exc' = "ConfigurationError"
            /\ pc' = "Exit"
            /\ UNCHANGED log
       ELSE /\ log' = Append(log, Invocation(Blocks[idx]))
            /\ pc' = "Running"
            /\ UNCHANGED exc
    /\ UNCHANGED <<requested, steps_par, config, env, env0, run, active_steps,
                   tmp_dir, dirs, idx, prevlog, failedAt, store, acquired,
                   released>>

\* mlflow.run returns: the step succeeded and logged its artifacts.
ExecutorReturns ==
    /\ pc = "Running"
    /\ store' = [a \in Artifacts |->
                    IF a \in Produces(Blocks[idx]) THEN store[a] + 1 ELSE store[a]]
    /\ Advance
    /\ UNCHANGED <<requested, steps_par, config, env, env0, run, active_steps,
                   tmp_dir, dirs, files, log, prevlog, exc, failedAt,
                   acquired, released>>

OnFailureSwallowed ==
    /\ Advance
    /\ UNCHANGED exc

OnFailureNoCleanup ==
    /\ exc' = "StepExecutionError"
    /\ pc' = "Failed"
    /\ UNCHANGED idx

\* The exception mlflow.run raises is not caught in the with body.
OnFailure ==
    /\ exc' = "StepExecutionError"
    /\ pc' = "Exit"
    /\ UNCHANGED idx

\* mlflow.run raises: the step failed.
ExecutorFails ==
    /\ pc = "Running"
    /\ failedAt' = idx
    /\ OnFailure
    /\ UNCHANGED <<requested, steps_par, config, env, env0, run, active_steps,
                   tmp_dir, dirs, files, log, prevlog, store, acquired,
                   released>>

\* Line 36, exit: the directory and what it holds are removed, on the normal
\* and on the exceptional path; an exception in flight is raised again.
ExitScope ==
    /\ pc = "Exit"
    /\ dirs' = dirs \ {tmp_dir}
    /\ files' = { f \in files : f.dir # tmp_dir }
    /\ released' = released + 1
    /\ pc' = IF exc = None THEN "Completed" ELSE "Failed"
    /\ UNCHANGED <<requested, steps_par, config, env, env0, run, active_steps,
                   tmp_dir, idx, log, prevlog, exc, failedAt, store, acquired>>

\* Line 148: go() is run again in the same process with the same
\* configuration, after a run that returned.
NextRun ==
    /\ pc = "Completed"
    /\ run < MaxRuns
    /\ run' = run + 1
    /\ pc' = "NotStarted"
    /\ env0' = env
    /\ prevlog' = log
    /\ log' = <<>>
    /\ active_steps' = <<>>
    /\ tmp_dir' = None
    /\ idx' = 0
    /\ failedAt' = 0
    /\ acquired' = 0
    /\ released' = 0
    /\ UNCHANGED <<requested, steps_par, config, env, dirs, files, exc, store>>

Next ==
    \/ SetEnv
    \/ ResolveSteps
    \/ EnterScope
    \/ SkipStep
    \/ InvokeStep
    \/ ExecutorReturns
    \/ ExecutorFails
    \/ ExitScope
    \/ NextRun

Spec == Init /\ [][Next]_vars

(* ----------------------------- properties ------------------------------ *)

Terminal == {"Completed", "Failed"}

LogSteps(l) == [i \in DOMAIN l |-> l[i].step]

IsPrefix(a, b) == Len(a) <= Len(b) /\ \A i \in DOMAIN a : a[i] = b[i]

IsListed(s) == s \in Range(requested)

\* The listed steps, in registry order.
ListedInRegistryOrder == SelectSeq(_steps, IsListed)

AllListedValid == requested # <<"all">> /\ Range(requested) \subseteq Range(_steps)

HasUnknownToken ==
    requested # <<"all">> /\ \E i \in DOMAIN requested : requested[i] \notin Range(_steps)

IsSelected(s) == In(s, active_steps)

\* The resolved active set, in registry order.
Resolved == SelectSeq(_steps, IsSelected)

\* C1: when every listed token is a step of the registry, the executor is
\* invoked for the listed steps only, in registry order whatever the order
\* of the listing, and a run that completes has invoked exactly the listed
\* steps.
C1_ListedStepsInRegistryOrder ==
    AllListedValid =>
        /\ IsPrefix(LogSteps(log), ListedInRegistryOrder)
        /\ (pc = "Completed" => LogSteps(log) = ListedInRegistryOrder)

C1_Witness ==
    /\ requested = <<"data_check", "download">>
    /\ pc = "Completed"
    /\ LogSteps(log) = <<"download", "data_check">>

\* C2: a run of "all" never invokes test_regression_model; the step is
\* invoked only when the selection names it.
C2_AllExcludesGatedStep ==
    \A i \in DOMAIN log :
        log[i].step = "test_regression_model" => IsListed("test_regression_model")

\* C3: a selection holding a token that is no step of the registry invokes
\* the executor zero times and ends in a ConfigurationError.
C3_UnknownTokenRejected ==
    HasUnknownToken =>
        /\ Len(log) = 0
        /\ (pc \in Terminal => pc = "Failed" /\ exc = "ConfigurationError")

\* C4: once the executor has reported failure for a step, the run has
\* invoked exactly the steps of the resolved active set up to and including
\* that step, each once, invokes no later one, and the failure leaves go()
\* as an exception: the run never completes.
C4_FailFast ==
    failedAt # 0 =>
        /\ pc \in {"Exit", "Failed"}
        /\ exc = "StepExecutionError"
        /\ \E i \in DOMAIN Resolved :
              /\ Resolved[i] = Blocks[failedAt]
              /\ LogSteps(log) = SubSeq(Resolved, 1, i)

C4_Witness ==
    /\ failedAt # 0
    /\ pc = "Failed"
    /\ Len(log) = 2
    /\ Len(Resolved) > 2

\* C5: a run creates its temporary directory at most once and removes it no
\* more often than it created it; the executor is only invoked while the
\* directory exists; and a run that ended, after all its steps succeeded or
\* after a step failed, has created and removed the directory exactly once.
C5_ScopeReleasedOnce ==
    /\ released <= acquired
    /\ acquired <= 1
    /\ (pc = "Running" => acquired = 1 /\ released = 0 /\ tmp_dir \in dirs)
    /\ (Len(log) > 0 => acquired = 1)
    /\ (pc \in Terminal => released = acquired)
    /\ (pc = "Completed" \/ (pc = "Failed" /\ failedAt # 0) =>
            acquired = 1 /\ released = 1 /\ tmp_dir \notin dirs)

C5_Witness ==
    /\ pc = "Failed"
    /\ failedAt # 0
    /\ Len(log) > 0
    /\ released = 1

\* C6: a ConfigurationError is raised only while no step has been invoked.
C6_ConfigErrorBeforeAnyStep ==
    exc = "ConfigurationError" => Len(log) = 0

\* C7: the two environment bindings are set when the executor is invoked,
\* and a run that ended has left them as they were when it started.
C7_EnvRestored ==
    /\ (pc = "Running" =>
            /\ env.WANDB_PROJECT = Cfg("main.project_name")
            /\ env.WANDB_RUN_GROUP = Cfg("main.experiment_name"))
    /\ (pc \in Terminal => env = env0)

Scrubbed(l) ==
    [i \in DOMAIN l |->
        [ location |-> l[i].location,
          entry_point |-> l[i].entry_point,
          parameters |->
              [k \in DOMAIN l[i].parameters |->
                  IF l[i].parameters[k][1] = "path"
                  THEN <<"path">> ELSE l[i].parameters[k]] ]]

\* C8: a later run with the same configuration and selection makes the
\* same calls as the run before it, file paths aside: its calls so far are
\* the first calls of the earlier run, and once it completes, all of them.
C8_SameInvocations ==
    run > 1 =>
        /\ IsPrefix(Scrubbed(log), Scrubbed(prevlog))
        /\ (pc = "Completed" => Scrubbed(log) = Scrubbed(prevlog))

C8_Witness ==
    /\ run = 2
    /\ pc = "Completed"
    /\ Len(log) >= 2
    /\ \E a \in Artifacts : store[a] = 2

\* C9: the hyperparameter file named by rf_config lies in the temporary
\* directory of the run, and is gone once that directory has been removed.
C9_RfConfigInScope ==
    /\ \A i \in DOMAIN log :
          log[i].step = "train_random_forest" =>
              log[i].parameters.rf_config[2] = tmp_dir
    /\ (released = 1 => \A f \in files : f.name # "rf_config.json")

\* C10: in a run of "all" that started with an empty artifact store, every
\* input the invoked step takes at version "latest" has been logged by a
\* step that ran earlier, and the "latest" input of data_check and of
\* train_val_test_split is the output artifact passed to basic_cleaning.
C10_LatestInputsProduced ==
    (requested = <<"all">> /\ run = 1 /\ pc = "Running") =>
        /\ \A a \in LatestInputs(log[Len(log)].parameters) : store[a] > 0
        /\ (log[Len(log)].step \in {"data_check", "train_val_test_split"} =>
                LatestInputs(log[Len(log)].parameters)
                    \subseteq DeclaredOutputs(Parameters("basic_cleaning")))

====
